---- MODULE Spec2Model ----
(***************************************************************************)
(* A model of src/lofar-sim.py: the LofarSimulator object, its array heap  *)
(* (numpy arrays are objects: a stage may alias or mutate them), the       *)
(* process-wide numpy random generator, and the simulator's methods.       *)
(*                                                                         *)
(* Numbers.  Samples, amplitudes and the noise level are integers (one     *)
(* unit of amplitude each).  duration is a rational <<num, den>>.  A       *)
(* timestamp time[i] = i * duration / (n - 1) is stored as its numerator   *)
(* i.  sin is read at the angle rounded down to a multiple of pi/2, so it  *)
(* takes the values 0, 1, 0, -1; a phase is a number of quarter turns.     *)
(* A standard-normal draw is an integer read off the generator state.      *)
(* Products such as delay * sampling_rate are exact rationals here; the    *)
(* code computes them in binary floating point.                            *)
(***************************************************************************)
EXTENDS Integers, Sequences, FiniteSets, TLC

VARIABLES
    sampling_rate,    \* self.sampling_rate
    duration,         \* self.duration, a rational <<num, den>>
    noise_level,      \* self.noise_level
    num_hydrophones,  \* self.num_hydrophones
    time,             \* self.time: the id of the time-axis array in heap
    heap,             \* every array alive: heap[id] is the array's samples
    rng,              \* the state of numpy's process-wide generator
    budget,           \* how many more calls the caller makes
    call,             \* the last call made: its arguments and its outcome
    trace,            \* __main__: the stages run so far, in order
    pc                \* __main__: the position of the script

vars == <<sampling_rate, duration, noise_level, num_hydrophones, time, heap,
          rng, budget, call, trace, pc>>

sim == <<sampling_rate, duration, noise_level, num_hydrophones, time>>

---------------------------------------------------------------------------
(* Bounds of the model *)

MaxLen == 2          \* longest caller-supplied array
MaxSensors == 3      \* longest list of signals handed to beamform
MaxTones == 2        \* longest frequency / amplitude / phase list
MaxCalls == 2        \* calls made on one simulator
MaxHydrophones == 2  \* largest num_hydrophones
MaxSignalLen == 300  \* longest signal handed to analyze_frequency alone

(* Program constants *)

NPERSEG == 256       \* spectrogram(..., nperseg=256, ...)
NOVERLAP == 128      \* spectrogram(..., noverlap=128)
DelayDen == 100      \* np.linspace(0, 0.01, ...): 0.01 = 1 / DelayDen

---------------------------------------------------------------------------
(* Python and numpy helpers *)

Min(a, b) == IF a <= b THEN a ELSE b

\* sequences over S of length 0 .. n
SeqUpTo(S, n) == UNION {[1..k -> S] : k \in 0..n}

\* int(num / den) for num >= 0, den > 0: truncation toward zero
IntTrunc(num, den) == num \div den

\* np.zeros_like(a)
zeros_like(a) == [i \in 1..Len(a) |-> 0]

\* a shift that fills with zeros what np.roll wraps around
roll_zero_fill(a, k) ==
    [p \in 1..Len(a) |-> IF p - k >= 1 /\ p - k <= Len(a) THEN a[p - k] ELSE 0]

\* np.roll(a, k): out[p] = a[(p - k) mod L], positions counted from 0
roll(a, k) ==
    [p \in 1..Len(a) |-> a[(((p - 1) - k) % Len(a)) + 1]]

\* whether numpy lets `out += x` broadcast x (length lx) into out (length lo)
Broadcasts(lo, lx) == lx = lo \/ lx = 1

\* out += x, elementwise, x of length 1 broadcast to every position
iadd(out, x) ==
    [p \in 1..Len(out) |-> out[p] + (IF Len(x) = Len(out) THEN x[p] ELSE x[1])]

\* a linspace whose single point is the stop, 0.01, and not the start
DelayTimesRate_stop(j, n, rate) ==
    IF n = 1 THEN <<rate, DelayDen>> ELSE <<j * rate, DelayDen * (n - 1)>>

\* np.linspace(0, 0.01, n)[j] * sampling_rate as a rational <<num, den>>:
\* linspace(0, 0.01, 1) is [0.0]
DelayTimesRate(j, n, rate) ==
    IF n = 1 THEN <<0, 1>> ELSE <<j * rate, DelayDen * (n - 1)>>

\* delay_samples = int(delay * self.sampling_rate), sensor j of n (j from 0)
delay_samples(j, n, rate) ==
    IntTrunc(DelayTimesRate(j, n, rate)[1], DelayTimesRate(j, n, rate)[2])

---------------------------------------------------------------------------
(* The array heap *)

\* a fresh array holding a: the heap after, the new array's id is its length
Alloc(h, a) == Append(h, a)

\* the array id of heap h overwritten in place
SetAt(h, id, a) == [h EXCEPT ![id] = a]

\* the heap once the local array `id` (the newest) is dropped unreturned
Drop(h, id) == SubSeq(h, 1, id - 1)

---------------------------------------------------------------------------
(* __init__ *)

\* round(sampling_rate * duration): the nearest integer, halves upward
TimeLen_round(rate, dur) == (2 * rate * dur[1] + dur[2]) \div (2 * dur[2])

\* int(sampling_rate * duration), duration = <<num, den>>
TimeLen(rate, dur) == IntTrunc(rate * dur[1], dur[2])

\* np.linspace(0, duration, n): n timestamps i * duration / (n - 1), stored
\* as the numerators i = 0 .. n - 1
TimeAxis(rate, dur) == [i \in 1..TimeLen(rate, dur) |-> i - 1]

---------------------------------------------------------------------------
(* numpy's process-wide generator *)

\* The generator state is its position in a cycle of 16 states.

\* the generator state after n draws from state s
RngAfter(s, n) == (s + n) % 16

\* the standard-normal sample drawn in state s
NormalDraw(s) == (((7 * s) % 16) % 3) - 1

\* np.random.normal(size=n) drawn from state s
normal(s, n) == [i \in 1..n |-> NormalDraw(RngAfter(s, i - 1))]

---------------------------------------------------------------------------
(* generate_signal *)

\* sin at q quarter turns
SinQ(q) == CASE q % 4 = 0 -> 0 [] q % 4 = 1 -> 1 [] q % 4 = 2 -> 0 [] OTHER -> -1

\* the quarter turns in 2*pi*f*t + p, t the timestamp with numerator ti on
\* a time axis of n points over dur seconds, rounded down
QuarterTurns(f, p, ti, n, dur) ==
    IF n <= 1 THEN p
    ELSE ((4 * f * ti * dur[1]) \div (dur[2] * (n - 1))) + p

\* a * np.sin(2 * np.pi * f * self.time + p) for the time axis tm
tone(f, a, p, tm, dur) ==
    [i \in 1..Len(tm) |-> a * SinQ(QuarterTurns(f, p, tm[i], Len(tm), dur))]

\* how many times `for f, a, p in zip(frequencies, amplitudes, phases)` runs
ZipLen(frequencies, amplitudes, phases) ==
    Min(Len(frequencies), Min(Len(amplitudes), Len(phases)))

\* the loop of generate_signal from tone k on: signal (an id) += each tone
RECURSIVE ToneLoop(_, _, _, _, _, _, _, _)
ToneLoop(h, signal, t, dur, frequencies, amplitudes, phases, k) ==
    IF k > ZipLen(frequencies, amplitudes, phases) THEN h
    ELSE ToneLoop(
             SetAt(h, signal,
                   iadd(h[signal],
                        tone(frequencies[k], amplitudes[k], phases[k], h[t], dur))),
             signal, t, dur, frequencies, amplitudes, phases, k + 1)

\* signal = np.zeros_like(self.time): the heap with the fresh array in it
SignalBuffer(h, t) == Alloc(h, zeros_like(h[t]))

\* generate_signal(frequencies, amplitudes, phases) on heap h and generator
\* state g: the heap after, the generator after, the id returned
generate_signal(h, g, t, dur, nl, frequencies, amplitudes, phases) ==
    LET h0 == SignalBuffer(h, t)
        signal == Len(h0)
        h1 == ToneLoop(h0, signal, t, dur, frequencies, amplitudes, phases, 1)
        n == Len(h1[t])
        draws == normal(g, n)
        noise == [i \in 1..n |-> nl * draws[i]]
    IN  [status |-> "ok",
         heap |-> SetAt(h1, signal, iadd(h1[signal], noise)),
         rng |-> RngAfter(g, n),
         ret |-> signal]

---------------------------------------------------------------------------
(* generate_hydrophone_signals *)

\* range(self.num_hydrophones - 1): one sensor short
RangeLen_short(k) == IF k > 1 THEN k - 1 ELSE 0

\* range(self.num_hydrophones): how many times the comprehension runs
RangeLen(k) == IF k > 0 THEN k ELSE 0

\* the comprehension of generate_hydrophone_signals with `left` sensors to
\* go, acc being the list of ids built so far
RECURSIVE HydrophoneLoop(_, _, _, _, _, _, _, _, _)
HydrophoneLoop(h, g, t, dur, nl, frequencies, amplitudes, phases, left) ==
    IF left = 0 THEN [heap |-> h, rng |-> g, ret |-> <<>>]
    ELSE LET one == generate_signal(h, g, t, dur, nl,
                                    frequencies, amplitudes, phases)
             rest == HydrophoneLoop(one.heap, one.rng, t, dur, nl,
                                    frequencies, amplitudes, phases, left - 1)
         IN  [heap |-> rest.heap, rng |-> rest.rng,
              ret |-> <<one.ret>> \o rest.ret]

\* generate_hydrophone_signals(frequencies, amplitudes, phases)
generate_hydrophone_signals(h, g, t, dur, nl, k, frequencies, amplitudes, phases) ==
    LET r == HydrophoneLoop(h, g, t, dur, nl, frequencies, amplitudes, phases,
                            RangeLen(k))
    IN  [status |-> "ok", heap |-> r.heap, rng |-> r.rng, ret |-> r.ret]

---------------------------------------------------------------------------
(* beamform *)

\* the loop of beamform from sensor j (from 1) on: beamformed_signal (the id
\* acc) += np.roll(signal, delay_samples), a fresh array each time
RECURSIVE BeamLoop(_, _, _, _, _)
BeamLoop(h, signals, rate, acc, j) ==
    IF j > Len(signals) THEN [status |-> "ok", heap |-> h]
    ELSE LET rolled == roll(h[signals[j]],
                            delay_samples(j - 1, Len(signals), rate))
         IN  IF ~Broadcasts(Len(h[acc]), Len(rolled))
             THEN [status |-> "ValueError", heap |-> h]
             ELSE BeamLoop(SetAt(h, acc, iadd(h[acc], rolled)),
                           signals, rate, acc, j + 1)

\* beamformed_signal = signals[0]: the first signal itself, no fresh array
BeamAccumulator_alias(h, signals) == [heap |-> h, id |-> signals[1]]

\* beamformed_signal = np.zeros_like(signals[0]): the heap with the fresh
\* array in it, and the array's id
BeamAccumulator(h, signals) ==
    [heap |-> Alloc(h, zeros_like(h[signals[1]])), id |-> Len(h) + 1]

\* beamform(signals) on heap h: the outcome, the heap after, the id returned
\* (0 when it raises).  A beamformed_signal that is not returned is dropped.
beamform(h, signals, rate) ==
    IF Len(signals) = 0
    THEN [status |-> "IndexError", heap |-> h, ret |-> 0]
    ELSE LET b == BeamAccumulator(h, signals)
             r == BeamLoop(b.heap, signals, rate, b.id, 1)
         IN  IF r.status = "ok"
             THEN [status |-> "ok", heap |-> r.heap, ret |-> b.id]
             ELSE [status |-> r.status,
                   heap |-> IF b.id > Len(h) THEN Drop(r.heap, b.id) ELSE r.heap,
                   ret |-> 0]

---------------------------------------------------------------------------
(* analyze_frequency: scipy.signal.spectrogram(signal, fs, nperseg=256,   *)
(* noverlap=128), by the shapes of what it returns                         *)

\* a window always nperseg long, a shorter signal zero-padded to fill it
SegmentLen_pad(L) == NPERSEG

\* the window length scipy uses: nperseg, or the input length when that is
\* shorter ("nperseg is greater than input length, using nperseg = ...")
SegmentLen(L) == Min(NPERSEG, L)

\* analyze_frequency(signal) for a signal of L samples: the outcome and the
\* lengths of the frequency axis and of the time axis.  An empty signal
\* gives empty arrays; noverlap >= the window length raises ValueError.
analyze_frequency(L) ==
    IF L = 0 THEN [status |-> "ok", nfreq |-> 0, ntimes |-> 0]
    ELSE IF NOVERLAP >= SegmentLen(L)
    THEN [status |-> "ValueError", nfreq |-> 0, ntimes |-> 0]
    ELSE [status |-> "ok",
          nfreq |-> (SegmentLen(L) \div 2) + 1,
          ntimes |-> (L - NOVERLAP) \div (SegmentLen(L) - NOVERLAP)]

---------------------------------------------------------------------------
(* What the caller passes in *)

Rates == {100, 175, 300}
ShortDurations == {<<1, 100>>, <<3, 100>>}
\* <<sampling_rate, duration>> of the script's simulator: the short runs,
\* and one run long enough for a full analysis window
MainRuns == (Rates \X ShortDurations) \cup {<<100, <<13, 10>>>>}
NoiseLevels == {0, 1}
Seeds == {0, 5}
Samples == {1, 2}
Freqs == {25, 50}
Amps == {1}
Phases == {1}

\* the arrays a caller builds itself
Arrays == SeqUpTo(Samples, MaxLen)

\* every triple of tone lists, the lists of equal length or not
ToneLists ==
    SeqUpTo(Freqs, MaxTones) \X SeqUpTo(Amps, MaxTones) \X SeqUpTo(Phases, MaxTones)

\* a few tone sets: none, one tone, two tones, and a short amplitude list
ToneArgs ==
    { << <<>>, <<>>, <<>> >>,
      << <<50>>, <<1>>, <<0>> >>,
      << <<25, 50>>, <<1, 2>>, <<0, 1>> >>,
      << <<25, 50>>, <<1>>, <<0, 1>> >> }

\* the ids lo .. hi as a list
IdRange(lo, hi) == [i \in 1..(hi - lo + 1) |-> lo + i - 1]

\* the tone lists a caller passes to synthesis
CallerTones == IF pc = "synth" THEN ToneLists ELSE ToneArgs

\* the lists of signals a caller passes to beamform
CallerLists ==
    IF pc = "beam" THEN SeqUpTo(1..Len(heap), MaxSensors)
    ELSE {<<>>} \cup
         UNION {{IdRange(lo, hi) : hi \in lo..Min(Len(heap), lo + MaxSensors - 1)} :
                lo \in 1..Len(heap)}

\* the signals a caller passes to analyze_frequency
CallerSignals == IF pc = "analyze" THEN {Len(heap)} ELSE 1..Len(heap)

NoCall ==
    [op |-> "none", status |-> "ok", ids |-> <<>>, inputs |-> <<>>,
     tones |-> << <<>>, <<>>, <<>> >>, ret |-> <<>>,
     nfreq |-> 0, ntimes |-> 0, rng0 |-> 0]

---------------------------------------------------------------------------
(* Calls on one simulator *)

\* simulator.generate_signal(frequencies, amplitudes, phases)
GenerateSignal ==
    /\ pc \in {"api", "synth"}
    /\ budget > 0
    /\ \E tn \in CallerTones :
         LET r == generate_signal(heap, rng, time, duration, noise_level,
                                  tn[1], tn[2], tn[3])
         IN  /\ heap' = r.heap
             /\ rng' = r.rng
             /\ call' = [NoCall EXCEPT !.op = "generate_signal",
                                       !.status = r.status, !.tones = tn,
                                       !.ret = <<r.ret>>, !.rng0 = rng]
    /\ budget' = budget - 1
    /\ UNCHANGED <<sim, trace, pc>>

\* simulator.generate_hydrophone_signals(frequencies, amplitudes, phases)
GenerateHydrophoneSignals ==
    /\ pc \in {"api", "synth"}
    /\ budget > 0
    /\ \E tn \in CallerTones :
         LET r == generate_hydrophone_signals(heap, rng, time, duration,
                      noise_level, num_hydrophones, tn[1], tn[2], tn[3])
         IN  /\ heap' = r.heap
             /\ rng' = r.rng
             /\ call' = [NoCall EXCEPT !.op = "generate_hydrophone_signals",
                                       !.status = r.status, !.tones = tn,
                                       !.ret = r.ret, !.rng0 = rng]
    /\ budget' = budget - 1
    /\ UNCHANGED <<sim, trace, pc>>

\* simulator.beamform(signals)
Beamform ==
    /\ pc \in {"api", "beam"}
    /\ budget > 0
    /\ \E signals \in CallerLists :
         LET r == beamform(heap, signals, sampling_rate)
         IN  /\ heap' = r.heap
             /\ call' = [NoCall EXCEPT !.op = "beamform", !.status = r.status,
                            !.ids = signals,
                            !.inputs = [j \in 1..Len(signals) |-> heap[signals[j]]],
                            !.ret = IF r.status = "ok" THEN <<r.ret>> ELSE <<>>,
                            !.rng0 = rng]
    /\ budget' = budget - 1
    /\ UNCHANGED <<sim, rng, trace, pc>>

\* simulator.analyze_frequency(signal)
AnalyzeFrequency ==
    /\ pc \in {"api", "analyze"}
    /\ budget > 0
    /\ \E signal \in CallerSignals :
         LET r == analyze_frequency(Len(heap[signal]))
         IN  call' = [NoCall EXCEPT !.op = "analyze_frequency",
                         !.status = r.status, !.ids = <<signal>>,
                         !.inputs = <<heap[signal]>>,
                         !.nfreq = r.nfreq, !.ntimes = r.ntimes, !.rng0 = rng]
    /\ budget' = budget - 1
    /\ UNCHANGED <<sim, heap, rng, trace, pc>>

---------------------------------------------------------------------------
(* __main__ *)

\* one stage of the script as the trace records it
Stage(name, status, tones, ids, ret, nfreq, ntimes) ==
    [stage |-> name, status |-> status, tones |-> tones, ids |-> ids,
     ret |-> ret, nfreq |-> nfreq, ntimes |-> ntimes]

\* signals = simulator.generate_hydrophone_signals(...)
MainGenerate ==
    /\ pc = "main"
    /\ \E tn \in ToneArgs :
         LET r == generate_hydrophone_signals(heap, rng, time, duration,
                      noise_level, num_hydrophones, tn[1], tn[2], tn[3])
         IN  /\ heap' = r.heap
             /\ rng' = r.rng
             /\ trace' = Append(trace,
                    Stage("generate_hydrophone_signals", r.status, tn, <<>>,
                          r.ret, 0, 0))
             /\ pc' = IF r.status = "ok" THEN "generated" ELSE "aborted"
    /\ UNCHANGED <<sim, budget, call>>

\* beamformed_signal = simulator.beamform(signals)
MainBeamform ==
    /\ pc = "generated"
    /\ LET signals == trace[1].ret
           r == beamform(heap, signals, sampling_rate)
       IN  /\ heap' = r.heap
           /\ trace' = Append(trace,
                  Stage("beamform", r.status, NoCall.tones, signals,
                        IF r.status = "ok" THEN <<r.ret>> ELSE <<>>, 0, 0))
           /\ pc' = IF r.status = "ok" THEN "beamformed" ELSE "aborted"
    /\ UNCHANGED <<sim, rng, budget, call>>

\* frequencies, times, spec = simulator.analyze_frequency(beamformed_signal)
MainAnalyze ==
    /\ pc = "beamformed"
    /\ LET signal == trace[2].ret[1]
           r == analyze_frequency(Len(heap[signal]))
       IN  /\ trace' = Append(trace,
                  Stage("analyze_frequency", r.status, NoCall.tones, <<signal>>,
                        <<>>, r.nfreq, r.ntimes))
           /\ pc' = IF r.status = "ok" THEN "analyzed" ELSE "aborted"
    /\ UNCHANGED <<sim, heap, rng, budget, call>>

\* simulator.plot_spectrogram(frequencies, times, spec): draws, changes nothing
MainPlot ==
    /\ pc = "analyzed"
    /\ trace' = Append(trace,
           Stage("plot_spectrogram", "ok", NoCall.tones, <<>>, <<>>,
                 trace[3].nfreq, trace[3].ntimes))
    /\ pc' = "done"
    /\ UNCHANGED <<sim, heap, rng, budget, call>>

---------------------------------------------------------------------------
(* Specifications *)

\* LofarSimulator(sampling_rate, duration, noise_level, num_hydrophones):
\* the object after __init__, its time axis the first array of the heap
Construct(rate, dur, nl, k) ==
    /\ sampling_rate = rate
    /\ duration = dur
    /\ noise_level = nl
    /\ num_hydrophones = k
    /\ time = 1
    /\ heap = <<TimeAxis(rate, dur)>>

\* A caller making up to MaxCalls calls, in any order, on one simulator.
Init ==
    /\ \E rate \in Rates, dur \in ShortDurations, k \in {0, MaxHydrophones} :
         Construct(rate, dur, 1, k)
    /\ rng \in Seeds
    /\ budget = MaxCalls
    /\ call = NoCall
    /\ trace = <<>>
    /\ pc = "api"

Next == GenerateSignal \/ GenerateHydrophoneSignals \/ Beamform \/ AnalyzeFrequency

Spec == Init /\ [][Next]_vars

\* One synthesis call, over every simulator and every triple of tone lists.
InitSynth ==
    /\ \E rate \in Rates, dur \in ShortDurations, nl \in NoiseLevels,
          k \in -1..MaxHydrophones :
         Construct(rate, dur, nl, k)
    /\ rng \in Seeds
    /\ budget = 1
    /\ call = NoCall
    /\ trace = <<>>
    /\ pc = "synth"

NextSynth == GenerateSignal \/ GenerateHydrophoneSignals

SpecSynth == InitSynth /\ [][NextSynth]_vars

\* One beamform call on a list drawn from the time axis and two arrays of
\* the caller's.
InitBeam ==
    /\ \E rate \in Rates, a \in Arrays, b \in Arrays :
         /\ sampling_rate = rate
         /\ duration = <<1, 100>>
         /\ noise_level = 0
         /\ num_hydrophones = 0
         /\ time = 1
         /\ heap = <<TimeAxis(rate, <<1, 100>>), a, b>>
    /\ rng = 0
    /\ budget = 1
    /\ call = NoCall
    /\ trace = <<>>
    /\ pc = "beam"

NextBeam == Beamform

SpecBeam == InitBeam /\ [][NextBeam]_vars

\* One analyze_frequency call on a non-empty signal of the caller's, of any
\* length up to MaxSignalLen.
InitAnalyze ==
    /\ \E rate \in Rates, L \in 1..MaxSignalLen, v \in Samples :
         /\ sampling_rate = rate
         /\ duration = <<1, 100>>
         /\ noise_level = 0
         /\ num_hydrophones = 0
         /\ time = 1
         /\ heap = <<TimeAxis(rate, <<1, 100>>), [i \in 1..L |-> v]>>
    /\ rng = 0
    /\ budget = 1
    /\ call = NoCall
    /\ trace = <<>>
    /\ pc = "analyze"

NextAnalyze == AnalyzeFrequency

SpecAnalyze == InitAnalyze /\ [][NextAnalyze]_vars

\* The script: construct, generate, beamform, analyze, plot.
InitMain ==
    /\ \E run \in MainRuns, nl \in NoiseLevels, k \in 0..MaxHydrophones :
         Construct(run[1], run[2], nl, k)
    /\ rng \in Seeds
    /\ budget = 0
    /\ call = NoCall
    /\ trace = <<>>
    /\ pc = "main"

NextMain == MainGenerate \/ MainBeamform \/ MainAnalyze \/ MainPlot

SpecMain == InitMain /\ [][NextMain]_vars

---------------------------------------------------------------------------
(* Properties of beamform, under SpecBeam *)

\* the last call was beamform
Beamformed == call.op = "beamform"

\* the signals of the last beamform call all have the length of the first
EqualLengths ==
    \A j \in 1..Len(call.inputs) : Len(call.inputs[j]) = Len(call.inputs[1])

\* the shift of sensor j (from 0) of n, as the claim states it: j * 0.01 /
\* (n - 1) * sampling_rate truncated, 0 for the only sensor of an array
ShiftOf(j, n) ==
    IF n = 1 THEN 0 ELSE (j * sampling_rate) \div (100 * (n - 1))

\* the sum of f[1] .. f[n]
RECURSIVE SumTo(_, _)
SumTo(f, n) == IF n = 0 THEN 0 ELSE f[n] + SumTo(f, n - 1)

\* sample p (from 0) of the delay-and-sum of the signals ins, each of length L
DelayAndSum(ins, L, p) ==
    SumTo([j \in 1..Len(ins) |->
              ins[j][((p - ShiftOf(j - 1, Len(ins))) % L) + 1]], Len(ins))

IsShapeMismatch(status) == status \in {"ShapeMismatch", "IndexError", "ValueError"}

\* C2: beamform fails with a ShapeMismatch error when the sensor array is
\* empty or its signals do not all have the same length; it never returns a
\* combined signal for such an input.
C2_ShapeMismatch ==
    (Beamformed /\ (Len(call.inputs) = 0 \/ ~EqualLengths)) =>
        /\ IsShapeMismatch(call.status)
        /\ call.ret = <<>>

\* C5: beamform of a sensor array of size 1 returns a signal equal to the
\* single input signal at every sample.
C5_SingleSensor ==
    (Beamformed /\ Len(call.inputs) = 1) =>
        /\ call.status = "ok"
        /\ Len(call.ret) = 1
        /\ heap[call.ret[1]] = call.inputs[1]

\* beamform has returned from a single signal of two unlike samples, at a
\* sampling rate whose full 0.01 s delay is an odd number of samples
C5_Witness ==
    /\ Beamformed
    /\ call.status = "ok"
    /\ Len(call.inputs) = 1
    /\ Len(call.inputs[1]) = 2
    /\ call.inputs[1][1] # call.inputs[1][2]
    /\ (sampling_rate \div 100) % 2 = 1

---------------------------------------------------------------------------
(* Properties of synthesis, under SpecSynth *)

\* the last call was generate_hydrophone_signals
GeneratedArray == call.op = "generate_hydrophone_signals"

\* the last call was a synthesis
Synthesized == call.op \in {"generate_signal", "generate_hydrophone_signals"}

\* the tone lists of the last call are not all of the same length
ToneMismatch ==
    \/ Len(call.tones[1]) # Len(call.tones[2])
    \/ Len(call.tones[2]) # Len(call.tones[3])

\* C3: generate_array with num_sensors < 1 raises an InvalidParameter error
\* at the array-generation stage; it does not return an empty sensor array.
C3_NoSensors ==
    (GeneratedArray /\ num_hydrophones < 1) =>
        call.status # "ok"

\* sample i of sensor k's signal less its own noise: the noise of sensor k
\* is the k-th run of n draws after the generator state before the call
Denoised(k, i, n) ==
    heap[call.ret[k]][i]
        - noise_level * NormalDraw(RngAfter(call.rng0, (k - 1) * n + (i - 1)))

\* C4: generate_array with num_sensors = K >= 1 returns exactly K signals,
\* each of the time axis's length, each from a synthesis of its own: K
\* distinct arrays with the same tonal content, each with the next run of
\* noise draws of the generator.
C4_GenerateArray ==
    (GeneratedArray /\ num_hydrophones >= 1) =>
        LET n == Len(heap[time])
        IN  /\ call.status = "ok"
            /\ Len(call.ret) = num_hydrophones
            /\ \A k \in 1..Len(call.ret) : Len(heap[call.ret[k]]) = n
            /\ \A j, k \in 1..Len(call.ret) :
                 j # k => call.ret[j] # call.ret[k]
            /\ \A k \in 1..Len(call.ret) : \A i \in 1..n :
                 Denoised(k, i, n) = Denoised(1, i, n)
            /\ rng = RngAfter(call.rng0, num_hydrophones * n)

\* two sensors or more have been generated, with a tone, noise and a time
\* axis of several samples
C4_Witness ==
    /\ GeneratedArray
    /\ num_hydrophones >= 2
    /\ Len(call.ret) = num_hydrophones
    /\ Len(heap[time]) >= 3
    /\ noise_level > 0
    /\ ZipLen(call.tones[1], call.tones[2], call.tones[3]) >= 1
    /\ heap[call.ret[1]] # heap[call.ret[2]]

\* every signal the last synthesis returned has the time axis's length
SignalsMatchTimeAxis ==
    Synthesized =>
        \A k \in 1..Len(call.ret) : Len(heap[call.ret[k]]) = Len(heap[time])

\* C6 as stated: the time axis has round(sampling_rate x duration) samples,
\* the nearest integer, and every synthesized signal has that length.
C6_RoundedLength ==
    /\ 2 * duration[2] * Len(heap[time])
           <= 2 * sampling_rate * duration[1] + duration[2]
    /\ 2 * sampling_rate * duration[1] + duration[2]
           < 2 * duration[2] * (Len(heap[time]) + 1)
    /\ SignalsMatchTimeAxis

\* C6 amended: the time axis has sampling_rate x duration samples truncated
\* toward zero (the largest n with n <= sampling_rate x duration), and every
\* synthesized signal has that length.
C6_TruncatedLength ==
    /\ duration[2] * Len(heap[time]) <= sampling_rate * duration[1]
    /\ sampling_rate * duration[1] < duration[2] * (Len(heap[time]) + 1)
    /\ SignalsMatchTimeAxis

\* a signal has been synthesized on a simulator whose sampling_rate x
\* duration is no integer and lies nearer the integer above
C6_Witness ==
    /\ call.op = "generate_signal"
    /\ Len(call.ret) = 1
    /\ 2 * ((sampling_rate * duration[1]) % duration[2]) > duration[2]

\* C8: synthesis called with frequency, amplitude and phase lists not all of
\* the same length fails with an InvalidParameter error; it never produces
\* a signal from a silently shortened tone set.
C8_ToneMismatch ==
    (Synthesized /\ ToneMismatch) =>
        /\ call.status # "ok"
        /\ call.ret = <<>>

---------------------------------------------------------------------------
(* Properties of analyze_frequency, under SpecAnalyze *)

\* the last call was analyze_frequency, on a signal of L samples
Analyzed(L) == call.op = "analyze_frequency" /\ Len(call.inputs[1]) = L

\* C9 as stated: analyze_frequency on a signal shorter than the window (256
\* samples) zero-pads it to one window and returns one time bin and
\* 256/2 + 1 = 129 frequency bins; it does not fail.
C9_ZeroPadded ==
    \A L \in 0..(NPERSEG - 1) :
        Analyzed(L) =>
            /\ call.status = "ok"
            /\ call.ntimes = 1
            /\ call.nfreq = (NPERSEG \div 2) + 1

\* C9 amended: on a signal of L samples, 128 < L < 256, analyze_frequency
\* shortens the window to L samples (no zero padding) and returns one time
\* bin and L div 2 + 1 frequency bins; on a signal of 1 <= L <= 128 samples
\* it fails with a ValueError (the overlap is not less than the window).
C9_ShortenedWindow ==
    /\ \A L \in (NOVERLAP + 1)..(NPERSEG - 1) :
         Analyzed(L) =>
             /\ call.status = "ok"
             /\ call.ntimes = 1
             /\ call.nfreq = (L \div 2) + 1
    /\ \A L \in 1..NOVERLAP :
         Analyzed(L) => call.status = "ValueError"

\* a signal of 200 samples has been analyzed
C9_Witness == Analyzed(200) /\ call.status = "ok" /\ call.nfreq = 101

---------------------------------------------------------------------------
(* Properties of the script, under SpecMain *)

\* the i-th stage run was given an input the stage must reject: array
\* generation no sensor or tone lists of unequal lengths, beamform no signal
\* or signals of unequal lengths
InvalidInput(i) ==
    \/ /\ trace[i].stage = "generate_hydrophone_signals"
       /\ \/ num_hydrophones < 1
          \/ Len(trace[i].tones[1]) # Len(trace[i].tones[2])
          \/ Len(trace[i].tones[2]) # Len(trace[i].tones[3])
    \/ /\ trace[i].stage = "beamform"
       /\ \/ Len(trace[i].ids) = 0
          \/ \E j \in 1..Len(trace[i].ids) :
               Len(heap[trace[i].ids[j]]) # Len(heap[trace[i].ids[1]])

\* C7: in a run of the pipeline an invalid input is reported as an error by
\* the stage that first receives it, and once a stage has been given invalid
\* input no later stage is executed in that run.
C7_AbortAtInvalidStage ==
    \A i \in 1..Len(trace) :
        InvalidInput(i) => (trace[i].status # "ok" /\ i = Len(trace))

---------------------------------------------------------------------------
(* Frame of the calls, under Spec *)

\* C10: over any sequence of generate_signal, generate_hydrophone_signals,
\* beamform and analyze_frequency calls on one simulator, every step leaves
\* the simulator's fields, its time axis and every array that existed before
\* the step unchanged, returns only arrays that are new, and beamform and
\* analyze_frequency leave the generator state unchanged.
C10_Frame ==
    [][ /\ sim' = sim
        /\ Len(heap') >= Len(heap)
        /\ \A id \in 1..Len(heap) : heap'[id] = heap[id]
        /\ \A k \in 1..Len(call'.ret) : call'.ret[k] > Len(heap)
        /\ call'.op \in {"beamform", "analyze_frequency"} => rng' = rng
      ]_vars

\* beamform has returned the sum of two signals that an earlier synthesis
\* call returned
C10_Witness ==
    /\ call.op = "beamform"
    /\ call.status = "ok"
    /\ Len(call.ids) = 2
    /\ \A j \in 1..2 : call.ids[j] # time
    /\ \E j \in 1..2 : \E p \in 1..Len(call.inputs[j]) : call.inputs[j][p] # 0
    /\ budget = 0

====
